---- MODULE Spec2Model ----
(***************************************************************************)
(* Model of rust-sfml's system module: the InputStream callback adapter    *)
(* (system/input_stream.rs), the Time value type (system/time.rs) and the  *)
(* Clock wrapper (system/clock.rs over ffi/system.rs).                     *)
(*                                                                         *)
(* Integer widths are scaled down so that TLC can enumerate them: i32 is   *)
(* modelled by NarrowBits bits and i64 by WideBits = NarrowBits + 11 bits, *)
(* which keeps the one relation the code relies on (an i32 times 1000      *)
(* always fits in an i64: 1000 < 2^10).                                    *)
(***************************************************************************)
EXTENDS Integers, Sequences, FiniteSets, TLC

\* ---------------------------------------------------------------- bounds
NarrowBits == 4
MaxSize == 3
MaxN == 3
MaxPos == 4
MaxScript == 2
MaxNow == 5

\* ---------------------------------------------------------- integer types
RECURSIVE Pow2(_)
Pow2(n) == IF n = 0 THEN 1 ELSE 2 * Pow2(n - 1)

WideBits == NarrowBits + 11

I32Min == -Pow2(NarrowBits - 1)
I32Max == Pow2(NarrowBits - 1) - 1
I64Min == -Pow2(WideBits - 1)
I64Max == Pow2(WideBits - 1) - 1

InI64(n) == n >= I64Min /\ n <= I64Max
InI32(n) == n >= I32Min /\ n <= I32Max

\* two's-complement wrap of an unbounded integer into the 64-bit type
WrapI64(n) == ((n - I64Min) % Pow2(WideBits)) + I64Min
\* `as i32`: narrowing cast keeps the low bits
WrapI32(n) == ((n - I32Min) % Pow2(NarrowBits)) + I32Min

Min(x, y) == IF x <= y THEN x ELSE y

\* A call's outcome: a value, or a panic (unwrap on None/Err, arithmetic
\* overflow with overflow checks on).  A panic inside an extern "C" callback
\* aborts the process.
Ret(v) == [panicked |-> FALSE, val |-> v]
Panic == [panicked |-> TRUE, val |-> 0]

VARIABLES
    \* InputStream adapter
    data,       \* bytes of the borrowed source T
    pos,        \* the source's stream position (u64)
    buf,        \* the foreign caller's buffer passed to read
    ret,        \* outcome of the last callback
    last,       \* the last callback invocation: name, arguments, pre-state, faults
    alive,      \* FALSE once a callback has panicked
    \* Time
    a, b,       \* operands (microsecond counts)
    overflow_checks, \* build profile: integer overflow panics (debug) or wraps (release)
    tres,       \* outcome of the last Time operation
    top,        \* name of the last Time operation
    targ,       \* its i32 argument, when it has one
    \* Clock
    now,        \* reading of the OS monotonic clock
    start_time, \* sfClock.start_time
    cret,       \* Time returned by the last Clock call
    cop,        \* name of the last Clock call
    chist       \* before that call: start_time, cop, cret; the readings at the last (re)start and at that call

streamVars == <<data, pos, buf, ret, last, alive>>
timeVars == <<a, b, overflow_checks, tres, top, targ>>
clockVars == <<now, start_time, cret, cop, chist>>
vars == <<data, pos, buf, ret, last, alive, a, b, overflow_checks, tres, top, targ,
          now, start_time, cret, cop, chist>>

\* ============================================================ InputStream

Byte(i) == 10 + i
Source(n) == [i \in 1..n |-> Byte(i)]
\* the caller's buffer before any read has written to it
Blank == [i \in 1..MaxN |-> 0]

\* Outcomes of one call of the source's Read::read:
\*   "All"  Ok(k) with every byte it was asked for and has
\*   "One"  Ok(1): a short read
\*   "Intr" Err(ErrorKind::Interrupted), which read_to_end retries
\*   "Err"  any other Err
Outcomes == {"All", "One", "Intr", "Err"}
Scripts == UNION {[1..k -> Outcomes] : k \in 0..MaxScript}

\* Take<&mut T>::read_to_end: call the source until the limit is used up, the
\* source returns Ok(0), or it returns an error other than Interrupted.
\* p: source position, limit: bytes Take still allows, script: outcomes of
\* the source's next reads ("All" once the script is used up), acc: bytes so far.
\* pieces counts the source reads that delivered bytes.
RECURSIVE read_to_end(_, _, _, _, _)
read_to_end(src, p, limit, script, acc) ==
    IF limit = 0 THEN [ok |-> TRUE, bytes |-> acc, pos |-> p, pieces |-> 0]
    ELSE LET avail == IF p < Len(src) THEN Len(src) - p ELSE 0
             o == IF script = <<>> THEN "All" ELSE Head(script)
             rest == IF script = <<>> THEN <<>> ELSE Tail(script)
         IN  IF o = "Err" THEN [ok |-> FALSE, bytes |-> acc, pos |-> p, pieces |-> 0]
             ELSE IF o = "Intr" THEN read_to_end(src, p, limit, rest, acc)
             ELSE IF avail = 0 THEN [ok |-> TRUE, bytes |-> acc, pos |-> p, pieces |-> 0]
             ELSE LET k == IF o = "One" THEN 1 ELSE Min(avail, limit)
                      got == [i \in 1..k |-> src[p + i]]
                      r == read_to_end(src, p + k, limit - k, rest, acc \o got)
                  IN  [r EXCEPT !.pieces = @ + 1]

\* ptr::copy_nonoverlapping(buf.as_ptr(), data, bytes_read)
copy_nonoverlapping(bytes, dst) ==
    [i \in 1..Len(dst) |-> IF i <= Len(bytes) THEN bytes[i] ELSE dst[i]]

\* The source's Seek::seek.  whence is "Start", "End" or "Current"; fail makes
\* the call return Err and leave the position where it was.
stream_seek(src, p, whence, off, fail) ==
    IF fail THEN [ok |-> FALSE, n |-> 0, pos |-> p]
    ELSE LET np == IF whence = "Start" THEN off
                   ELSE IF whence = "End" THEN Len(src) + off
                   ELSE p + off
         IN  [ok |-> TRUE, n |-> np, pos |-> np]

\* u64 -> c_longlong by try_into().unwrap()
to_longlong(n, p) ==
    IF n <= I64Max THEN [ret |-> Ret(n), pos |-> p] ELSE [ret |-> Panic, pos |-> p]

read_mut_partial(src, p, dst, size, script) ==
    IF size = 0 THEN [ret |-> Ret(0), pos |-> p, buf |-> dst]
    ELSE IF size > 0 THEN
        LET r == read_to_end(src, p, size, script, <<>>)
        IN  [ret |-> Ret(Len(r.bytes)), pos |-> r.pos,
             buf |-> copy_nonoverlapping(r.bytes, dst)]
    ELSE [ret |-> Ret(-1), pos |-> p, buf |-> dst]

read_mut_single(src, p, dst, size, script) ==
    IF size = 0 THEN [ret |-> Ret(0), pos |-> p, buf |-> dst]
    ELSE IF size > 0 THEN
        LET o == IF script = <<>> THEN "All" ELSE Head(script)
            r == read_to_end(src, p, IF o = "One" THEN 1 ELSE size, <<>>, <<>>)
        IN  IF o \in {"Err", "Intr"}
            THEN [ret |-> Ret(-1), pos |-> p, buf |-> dst]
            ELSE [ret |-> Ret(Len(r.bytes)), pos |-> r.pos,
                  buf |-> copy_nonoverlapping(r.bytes, dst)]
    ELSE [ret |-> Ret(-1), pos |-> p, buf |-> dst]

read_mut_retsize(src, p, dst, size, script) ==
    IF size = 0 THEN [ret |-> Ret(0), pos |-> p, buf |-> dst]
    ELSE IF size > 0 THEN
        LET r == read_to_end(src, p, size, script, <<>>)
        IN  IF r.ok
            THEN [ret |-> Ret(size), pos |-> r.pos,
                  buf |-> copy_nonoverlapping(r.bytes, dst)]
            ELSE [ret |-> Ret(-1), pos |-> r.pos, buf |-> dst]
    ELSE [ret |-> Ret(-1), pos |-> p, buf |-> dst]

read_mut_negative(src, p, dst, size, script) ==
    IF size <= 0 THEN [ret |-> Ret(0), pos |-> p, buf |-> dst]
    ELSE LET r == read_to_end(src, p, size, script, <<>>)
         IN  IF r.ok
             THEN [ret |-> Ret(Len(r.bytes)), pos |-> r.pos,
                   buf |-> copy_nonoverlapping(r.bytes, dst)]
             ELSE [ret |-> Ret(-1), pos |-> r.pos, buf |-> dst]

\* extern "C" fn read
read(src, p, dst, size, script) ==
    IF size = 0 THEN [ret |-> Ret(0), pos |-> p, buf |-> dst]
    ELSE IF size > 0 THEN
        LET r == read_to_end(src, p, size, script, <<>>)
        IN  IF r.ok
            THEN [ret |-> Ret(Len(r.bytes)), pos |-> r.pos,
                  buf |-> copy_nonoverlapping(r.bytes, dst)]
            ELSE [ret |-> Ret(-1), pos |-> r.pos, buf |-> dst]
    ELSE [ret |-> Ret(-1), pos |-> p, buf |-> dst]

\* What the source did during a read(size) callback that reads it until size
\* bytes or its end: whether one of its reads failed, how many bytes it handed
\* over, in how many pieces.  With size <= 0 the source is not called.
SourceActivity(src, p, size, script) ==
    IF size <= 0 THEN [ok |-> TRUE, got |-> 0, pieces |-> 0]
    ELSE LET r == read_to_end(src, p, size, script, <<>>)
         IN  [ok |-> r.ok, got |-> Len(r.bytes), pieces |-> r.pieces]

get_size_mut_norestore(src, p, f1, f2, f3) ==
    LET s1 == stream_seek(src, p, "Current", 0, f1)
    IN  IF ~s1.ok THEN [ret |-> Panic, pos |-> s1.pos]
        ELSE LET s2 == stream_seek(src, s1.pos, "End", 0, f2)
             IN  IF ~s2.ok THEN [ret |-> Panic, pos |-> s2.pos]
                 ELSE to_longlong(s2.n, s2.pos)

\* extern "C" fn get_size; f1, f2, f3: whether its first, second, third seek fails
get_size(src, p, f1, f2, f3) ==
    LET s1 == stream_seek(src, p, "Current", 0, f1)
    IN  IF ~s1.ok THEN [ret |-> Panic, pos |-> s1.pos]
        ELSE LET s2 == stream_seek(src, s1.pos, "End", 0, f2)
             IN  IF ~s2.ok THEN [ret |-> Panic, pos |-> s2.pos]
                 ELSE LET s3 == stream_seek(src, s2.pos, "Start", s1.n, f3)
                      IN  to_longlong(s2.n, s3.pos)

\* extern "C" fn tell
tell(src, p, f1) ==
    LET s == stream_seek(src, p, "Current", 0, f1)
    IN  IF ~s.ok THEN [ret |-> Panic, pos |-> s.pos] ELSE to_longlong(s.n, s.pos)

\* extern "C" fn seek: position.try_into().unwrap() panics on a negative position
seek(src, p, position, f1) ==
    IF position < 0 THEN [ret |-> Panic, pos |-> p]
    ELSE LET s == stream_seek(src, p, "Start", position, f1)
         IN  IF s.ok THEN to_longlong(s.n, s.pos) ELSE [ret |-> Ret(-1), pos |-> s.pos]

ReadSizes == {I64Min, -1} \cup (0..MaxN)
SeekPositions == {I64Min, -1, I64Max} \cup (0..MaxPos)

NoCall == [op |-> "new", arg |-> 0, pos0 |-> 0, buf0 |-> Blank,
           f1 |-> FALSE, f2 |-> FALSE, f3 |-> FALSE, ok |-> TRUE, got |-> 0,
           pieces |-> 0]

\* InputStream::new(source): the source may already have been read or seeked
StreamInit ==
    /\ data \in {Source(n) : n \in 0..MaxSize}
    /\ pos \in 0..Len(data)
    /\ buf = Blank
    /\ ret = Ret(0)
    /\ last = NoCall
    /\ alive = TRUE

Finish(r) ==
    /\ ret' = r.ret
    /\ pos' = r.pos
    /\ alive' = ~r.ret.panicked
    /\ data' = data

CallRead ==
    /\ alive
    /\ \E size \in ReadSizes, script \in Scripts :
        LET r == read(data, pos, buf, size, script)
            act == SourceActivity(data, pos, size, script)
        IN  /\ Finish(r)
            /\ buf' = r.buf
            /\ last' = [op |-> "read", arg |-> size, pos0 |-> pos, buf0 |-> buf,
                        f1 |-> FALSE, f2 |-> FALSE, f3 |-> FALSE,
                        ok |-> act.ok, got |-> act.got, pieces |-> act.pieces]
    /\ UNCHANGED <<timeVars, clockVars>>

CallGetSize ==
    /\ alive
    /\ \E f1 \in BOOLEAN, f2 \in BOOLEAN, f3 \in BOOLEAN :
        LET r == get_size(data, pos, f1, f2, f3)
        IN  /\ Finish(r)
            /\ buf' = buf
            /\ last' = [op |-> "getSize", arg |-> 0, pos0 |-> pos, buf0 |-> buf,
                        f1 |-> f1, f2 |-> f2, f3 |-> f3, ok |-> TRUE, got |-> 0,
                        pieces |-> 0]
    /\ UNCHANGED <<timeVars, clockVars>>

CallTell ==
    /\ alive
    /\ \E f1 \in BOOLEAN :
        LET r == tell(data, pos, f1)
        IN  /\ Finish(r)
            /\ buf' = buf
            /\ last' = [op |-> "tell", arg |-> 0, pos0 |-> pos, buf0 |-> buf,
                        f1 |-> f1, f2 |-> FALSE, f3 |-> FALSE, ok |-> TRUE, got |-> 0,
                        pieces |-> 0]
    /\ UNCHANGED <<timeVars, clockVars>>

CallSeek ==
    /\ alive
    /\ \E position \in SeekPositions, f1 \in BOOLEAN :
        LET r == seek(data, pos, position, f1)
        IN  /\ Finish(r)
            /\ buf' = buf
            /\ last' = [op |-> "seek", arg |-> position, pos0 |-> pos, buf0 |-> buf,
                        f1 |-> f1, f2 |-> FALSE, f3 |-> FALSE, ok |-> TRUE, got |-> 0,
                        pieces |-> 0]
    /\ UNCHANGED <<timeVars, clockVars>>

StreamNext == CallRead \/ CallGetSize \/ CallTell \/ CallSeek

TimeIdle ==
    /\ a = 0 /\ b = 0 /\ overflow_checks = FALSE
    /\ tres = Ret(0) /\ top = "new" /\ targ = 0

ClockIdle ==
    /\ now = 0 /\ start_time = 0 /\ cret = 0 /\ cop = "start"
    /\ chist = [start0 |-> 0, op0 |-> "start", ret0 |-> 0, epoch |-> 0, at |-> 0]

InitStream == StreamInit /\ TimeIdle /\ ClockIdle

SpecStream == InitStream /\ [][StreamNext]_vars

\* ================================================================== Time

\* i64 `+`, `-`, `*`: a panic on overflow when the build has overflow checks
\* (debug profile), two's-complement wrap otherwise (release profile)
checked(n, oc) == IF InI64(n) THEN Ret(n) ELSE IF oc THEN Panic ELSE Ret(WrapI64(n))

div_i64_mut_floor(x, y) == x \div y

\* i64 `/` with a positive divisor: the quotient is truncated toward zero
div_i64(x, y) == IF x >= 0 THEN x \div y ELSE -((-x) \div y)

\* Time::microseconds
microseconds(us) == us

\* Time::milliseconds: milliseconds as i64 * 1000
milliseconds(ms, oc) == checked(ms * 1000, oc)

\* Time::as_milliseconds: (self.microseconds / 1000) as i32
as_milliseconds(self) == WrapI32(div_i64(self, 1000))

\* impl Add for Time
add(self, rhs, oc) == checked(self + rhs, oc)

sub_mut_swapped(self, rhs, oc) == checked(rhs - self, oc)

\* impl Sub for Time
sub(self, rhs, oc) == checked(self - rhs, oc)

\* impl AddAssign for Time
add_assign(self, rhs, oc) == checked(self + rhs, oc)

\* impl SubAssign for Time
sub_assign(self, rhs, oc) == checked(self - rhs, oc)

EdgeTimes == {I64Min, I64Min + 1, -1000, -1, 0, 1, 1000, I64Max - 1, I64Max}
MilliEdges == {(I32Min - 1) * 1000, (I32Min - 1) * 1000 + 1, I32Min * 1000, -1500, 1500,
               I32Max * 1000, (I32Max + 1) * 1000 - 1, (I32Max + 1) * 1000}
NearMillis == {k * 1000 + d : k \in -2..2, d \in -2..2}
TimeSamples == EdgeTimes \cup MilliEdges \cup NearMillis
I32 == I32Min..I32Max

TimeInit ==
    /\ a \in TimeSamples
    /\ b \in EdgeTimes
    /\ overflow_checks \in BOOLEAN
    /\ tres = Ret(0)
    /\ top = "new"
    /\ targ = 0

\* (a + b) - b
AddThenSub ==
    /\ top' = "add_sub"
    /\ LET s == add(a, b, overflow_checks)
       IN  tres' = IF s.panicked THEN s ELSE sub(s.val, b, overflow_checks)
    /\ UNCHANGED <<a, b, overflow_checks, targ>>
    /\ UNCHANGED <<streamVars, clockVars>>

\* t = a; t += b; t -= b
AddAssignThenSubAssign ==
    /\ top' = "add_assign_sub_assign"
    /\ LET s == add_assign(a, b, overflow_checks)
       IN  tres' = IF s.panicked THEN s ELSE sub_assign(s.val, b, overflow_checks)
    /\ UNCHANGED <<a, b, overflow_checks, targ>>
    /\ UNCHANGED <<streamVars, clockVars>>

\* Time::microseconds(a).as_milliseconds()
AsMilliseconds ==
    /\ top' = "as_milliseconds"
    /\ tres' = Ret(as_milliseconds(microseconds(a)))
    /\ UNCHANGED <<a, b, overflow_checks, targ>>
    /\ UNCHANGED <<streamVars, clockVars>>

\* Time::milliseconds(m).as_microseconds()
Milliseconds ==
    /\ \E m \in I32 :
        /\ targ' = m
        /\ tres' = milliseconds(m, overflow_checks)
    /\ top' = "milliseconds"
    /\ UNCHANGED <<a, b, overflow_checks>>
    /\ UNCHANGED <<streamVars, clockVars>>

\* Time::milliseconds(m).as_milliseconds()
RoundTrip ==
    /\ \E m \in I32 :
        /\ targ' = m
        /\ LET t == milliseconds(m, overflow_checks)
           IN  tres' = IF t.panicked THEN t ELSE Ret(as_milliseconds(t.val))
    /\ top' = "round_trip"
    /\ UNCHANGED <<a, b, overflow_checks>>
    /\ UNCHANGED <<streamVars, clockVars>>

TimeNext == AddThenSub \/ AddAssignThenSubAssign \/ AsMilliseconds \/ Milliseconds \/ RoundTrip

StreamIdle ==
    /\ data = <<>> /\ pos = 0 /\ buf = Blank /\ ret = Ret(0)
    /\ last = NoCall /\ alive = TRUE

InitTime == TimeInit /\ StreamIdle /\ ClockIdle

SpecTime == InitTime /\ [][TimeNext]_vars

\* ================================================================= Clock

\* sfClock_create: sample the monotonic clock into start_time
sfClock_create(n) == [start_time |-> n]

\* sfClock_getElapsedTime: now - start_time, start_time kept
sfClock_getElapsedTime(clock, n) == [ret |-> n - clock, start_time |-> clock]

\* sfClock_restart: now - start_time, start_time <- now
sfClock_restart(clock, n) == [ret |-> n - clock, start_time |-> n]

elapsed_time_mut_restart(self, n) == sfClock_restart(self, n)

\* Clock::elapsed_time
elapsed_time(self, n) == sfClock_getElapsedTime(self, n)

\* Clock::restart
restart(self, n) == sfClock_restart(self, n)

\* Clock::start()
ClockInit ==
    /\ now \in 0..1
    /\ start_time = sfClock_create(now).start_time
    /\ cret = 0
    /\ cop = "start"
    /\ chist = [start0 |-> start_time, op0 |-> "start", ret0 |-> 0, epoch |-> now, at |-> now]

\* the monotonic source advances; it never goes back
Tick ==
    /\ \E n \in (now + 1)..MaxNow : now' = n
    /\ UNCHANGED <<start_time, cret, cop, chist>>
    /\ UNCHANGED <<streamVars, timeVars>>

ElapsedTime ==
    /\ LET r == elapsed_time(start_time, now)
       IN  /\ cret' = r.ret
           /\ start_time' = r.start_time
    /\ cop' = "elapsed_time"
    /\ chist' = [start0 |-> start_time, op0 |-> cop, ret0 |-> cret, epoch |-> chist.epoch,
                at |-> now]
    /\ now' = now
    /\ UNCHANGED <<streamVars, timeVars>>

Restart ==
    /\ LET r == restart(start_time, now)
       IN  /\ cret' = r.ret
           /\ start_time' = r.start_time
    /\ cop' = "restart"
    /\ chist' = [start0 |-> start_time, op0 |-> cop, ret0 |-> cret, epoch |-> now,
                at |-> now]
    /\ now' = now
    /\ UNCHANGED <<streamVars, timeVars>>

ClockNext == Tick \/ ElapsedTime \/ Restart

InitClock == ClockInit /\ StreamIdle /\ TimeIdle

SpecClock == InitClock /\ [][ClockNext]_vars

\* ================================================================ Claims

Abs(n) == IF n < 0 THEN -n ELSE n

\* C1: a read of n > 0 bytes whose source does not fail returns k with
\* 0 <= k <= n, the first k bytes of buf are the source bytes [p, p + k), tell
\* then reports p + k, and at or past the end of the source the result is 0.
C1_ReadReturnsBytesAtPosition ==
    (last.op = "read" /\ last.arg > 0 /\ last.ok) =>
        /\ ~ret.panicked
        /\ ret.val >= 0 /\ ret.val <= last.arg
        /\ \A i \in 1..ret.val :
              last.pos0 + i <= Len(data) /\ buf[i] = data[last.pos0 + i]
        /\ \A i \in (ret.val + 1)..MaxN : buf[i] = last.buf0[i]
        /\ tell(data, pos, FALSE).ret = Ret(last.pos0 + ret.val)
        /\ (last.pos0 >= Len(data) => ret.val = 0)

C1_Witness ==
    /\ last.op = "read" /\ last.arg = 3 /\ last.ok
    /\ last.pos0 = 1 /\ Len(data) = 3
    /\ ret = Ret(2) /\ buf[1] = Byte(2) /\ buf[2] = Byte(3) /\ pos = 3

\* C2: when the source's read fails during a read of n > 0 bytes, the callback
\* returns -1 and leaves buf as it was, whatever the source had delivered.
C2_FailedReadReturnsMinusOne ==
    (last.op = "read" /\ last.arg > 0 /\ ~last.ok) =>
        (ret = Ret(-1) /\ buf = last.buf0)

C2_Witness ==
    /\ last.op = "read" /\ last.arg > 0 /\ ~last.ok /\ last.got > 0
    /\ ret = Ret(-1) /\ buf = last.buf0

\* C3: for every position, negative ones included, seek returns the new
\* absolute position or -1 and never panics.
C3_SeekNeverPanics ==
    last.op = "seek" =>
        /\ ~ret.panicked
        /\ IF last.f1 \/ last.arg < 0 THEN ret.val = -1
           ELSE ret.val = last.arg /\ pos = last.arg

\* C4: when its seeks succeed, getSize returns the length of the source and
\* leaves the position, hence what tell reports, as it was before the call.
C4_GetSizeKeepsPosition ==
    (last.op = "getSize" /\ ~last.f1 /\ ~last.f2 /\ ~last.f3) =>
        /\ ret = Ret(Len(data))
        /\ pos = last.pos0
        /\ tell(data, pos, FALSE).ret = tell(data, last.pos0, FALSE).ret

C4_Witness ==
    /\ last.op = "getSize" /\ ~last.f1 /\ ~last.f2 /\ ~last.f3
    /\ Len(data) = 3 /\ last.pos0 = 1 /\ pos = 1 /\ ret = Ret(3)

\* C5: when the seek to the end or the restoring seek inside getSize fails,
\* getSize still returns a size and does not abort.
C5_GetSizeBestEffort ==
    (last.op = "getSize" /\ ~last.f1 /\ (last.f2 \/ last.f3)) => ~ret.panicked

\* C6: a read of n <= 0 bytes leaves buf and the source position alone and
\* returns 0 for n = 0 and -1 for n < 0.
C6_ReadNonPositive ==
    (last.op = "read" /\ last.arg <= 0) =>
        /\ buf = last.buf0
        /\ pos = last.pos0
        /\ ret = Ret(IF last.arg = 0 THEN 0 ELSE -1)

C6_Witness ==
    /\ last.op = "read" /\ last.arg < 0 /\ ret = Ret(-1)
    /\ buf # Blank /\ buf = last.buf0 /\ pos = last.pos0 /\ pos < Len(data)

\* C10: over a source that does not fail, a read of n > 0 bytes at p <= size
\* returns exactly min(n, size - p), however small the pieces the source
\* delivers; a result below n means the source is at its end.
C10_ReadFillsOrReachesEnd ==
    (last.op = "read" /\ last.arg > 0 /\ last.ok /\ last.pos0 <= Len(data)) =>
        /\ ret = Ret(Min(last.arg, Len(data) - last.pos0))
        /\ (ret.val < last.arg => pos = Len(data))

C10_Witness ==
    /\ last.op = "read" /\ last.arg = 3 /\ last.ok /\ last.pos0 = 0
    /\ last.pieces = 3
    /\ ret = Ret(3) /\ pos = 3

\* C7: with a monotonic source that never goes back, elapsed_time leaves
\* start_time alone and returns the non-negative time since the last start or
\* restart, so two elapsed_time calls in a row do not decrease; restart
\* returns the same difference and moves start_time to now.
C7_ClockElapsed ==
    /\ cop = "elapsed_time" =>
          /\ start_time = chist.start0
          /\ cret = chist.at - chist.epoch
          /\ cret >= 0
          /\ (chist.op0 = "elapsed_time" => cret >= chist.ret0)
    /\ cop = "restart" =>
          /\ cret = chist.at - chist.start0
          /\ start_time = chist.at
    /\ start_time = chist.epoch

C7_Witness ==
    /\ cop = "elapsed_time" /\ chist.op0 = "elapsed_time"
    /\ chist.epoch > 0 /\ cret > chist.ret0 /\ chist.ret0 > 0

C9_MillisecondsTruncate ==
    /\ (top = "as_milliseconds" /\ a > (I32Min - 1) * 1000 /\ a < (I32Max + 1) * 1000) =>
          /\ ~tres.panicked
          /\ InI32(tres.val)
          /\ Abs(tres.val) * 1000 <= Abs(a)
          /\ Abs(a) < Abs(tres.val) * 1000 + 1000
          /\ (tres.val > 0 => a > 0)
          /\ (tres.val < 0 => a < 0)
    /\ top = "milliseconds" => tres = Ret(targ * 1000)
    /\ top = "round_trip" => tres = Ret(targ)

C9_Witness ==
    top = "as_milliseconds" /\ a = -1500 /\ tres = Ret(-1)

====
